---- MODULE Spec2Model ----
(***************************************************************************)
(* Model of scripts/sendpayment.py: main() builds a schedule, fixes the    *)
(* per-participant fee, syncs the wallet, hands the callback               *)
(* taker_finished to a Taker and runs the reactor.  The Taker / protocol   *)
(* client (jmclient) is the Protocol Client Adapter of the specification:  *)
(* it starts rounds on clientStart and reports them through taker_finished.*)
(***************************************************************************)
EXTENDS Integers, Sequences, FiniteSets

\* ------------------------------------------------------------------ bounds
MaxSchedule == 3

\* ------------------------------------------------------- program constants
UnsetFee == -1
AssumedInputs == 2
AssumedOutputs == 2
MinArgs == 3

\* ------------------------------------------------------------ input domains
FeeOverrides == {-2, UnsetFee, 5}
EstimateValues == {0, 3}
ArgCounts == {0, 1, MinArgs}
Amounts == {-1, 0, 5}
MakerCounts == {0, 3}
Addresses == {"validAddr", "badAddr"}

RawEntries == [amount : Amounts, makercount : MakerCounts, destaddr : Addresses]

RawSchedules == UNION {[1..n -> RawEntries] : n \in 0..MaxSchedule}

VARIABLES
    pc,               \* position of main()
    txfee,            \* options.txfee
    feeOverride,      \* the value of -f as given on the command line
    estimatorArgs,    \* arguments of every estimate_tx_fee call made
    scheduleOpt,      \* options.schedule: "" or a file name
    nargs,            \* len(args)
    makercount,       \* options.makercount
    pickorders,       \* options.pickorders
    choosecheapest,   \* options.choosecheapest
    schedule,         \* the schedule handed to the Taker
    chooseOrdersFunc, \* the order chooser handed to the Taker
    syncCount,        \* number of sync_wallet calls
    walletView,       \* completed transactions the wallet view reflects
    txCompleted,      \* transactions completed on the network
    reactor,          \* "notstarted" | "running" | "stopped"
    currentIndex,     \* index of the schedule entry the Taker is at
    roundState,       \* state of the adapter's current round
    picked,           \* a manual choice of offers has been supplied
    visited,          \* one record per round started, in order
    queue,            \* signals emitted by the adapter, not yet dispatched
    runSignalSent,    \* the adapter has emitted its run-level signal
    handled,          \* signals taker_finished has been called with
    outcome           \* terminal states the run has entered

vars == <<pc, txfee, feeOverride, estimatorArgs, scheduleOpt, nargs, makercount,
          pickorders, choosecheapest, schedule, chooseOrdersFunc, syncCount,
          walletView, txCompleted, reactor, currentIndex, roundState, picked,
          visited, queue, runSignalSent, handled, outcome>>

optionVars == <<feeOverride, scheduleOpt, nargs, makercount, pickorders,
                choosecheapest>>

runVars == <<reactor, currentIndex, roundState, picked, visited, queue,
             runSignalSent, handled, outcome, txCompleted>>

\* ----------------------------------------------------------------- signals
RoundSucceeded == [res |-> TRUE, fromtx |-> TRUE]
RoundFailed == [res |-> FALSE, fromtx |-> TRUE]
RunCompleted == [res |-> TRUE, fromtx |-> FALSE]
RunAborted == [res |-> FALSE, fromtx |-> FALSE]

\* ------------------------------------------------------- external functions
validate_address(destaddr) == destaddr = "validAddr"

EntryValid(e) ==
    /\ validate_address(e.destaddr)
    /\ e.makercount > 0
    /\ e.amount >= 0

get_schedule(raw) ==
    /\ Len(raw) > 0
    /\ \A i \in 1..Len(raw) : EntryValid(raw[i])

Max(a, b) == IF a >= b THEN a ELSE b

\* -------------------------------------------------------------------- Init
Init ==
    /\ pc = "parsed"
    /\ feeOverride \in FeeOverrides
    /\ txfee = feeOverride
    /\ estimatorArgs = <<>>
    /\ scheduleOpt \in {"", "schedule.txt"}
    /\ nargs \in ArgCounts
    /\ makercount \in MakerCounts
    /\ pickorders \in BOOLEAN
    /\ choosecheapest \in BOOLEAN
    /\ schedule = <<>>
    /\ chooseOrdersFunc = "None"
    /\ syncCount = 0
    /\ walletView = 0
    /\ txCompleted = 0
    /\ reactor = "notstarted"
    /\ currentIndex = 0
    /\ roundState = "idle"
    /\ picked = FALSE
    /\ visited = <<>>
    /\ queue = <<>>
    /\ runSignalSent = FALSE
    /\ handled = <<>>
    /\ outcome = {}

\* ------------------------------------------------------------------ main()
CheckArgs ==
    /\ pc = "parsed"
    /\ pc' = IF scheduleOpt = "" /\ nargs < MinArgs THEN "exit" ELSE "build"
    /\ UNCHANGED <<txfee, estimatorArgs, schedule, chooseOrdersFunc, syncCount,
                   walletView>>
    /\ UNCHANGED optionVars
    /\ UNCHANGED runVars

BuildSchedule ==
    /\ pc = "build"
    /\ IF scheduleOpt = ""
       THEN \E amount \in Amounts, destaddr \in Addresses :
               IF ~validate_address(destaddr)
               THEN pc' = "exit" /\ UNCHANGED schedule
               ELSE /\ schedule' = <<[amount |-> amount,
                                      makercount |-> makercount,
                                      destaddr |-> destaddr]>>
                    /\ pc' = "setup"
       ELSE \E raw \in RawSchedules :
               IF ~get_schedule(raw)
               THEN pc' = "exit" /\ UNCHANGED schedule
               ELSE schedule' = raw /\ pc' = "setup"
    /\ UNCHANGED <<txfee, estimatorArgs, chooseOrdersFunc, syncCount, walletView>>
    /\ UNCHANGED optionVars
    /\ UNCHANGED runVars

Setup ==
    /\ pc = "setup"
    /\ IF nargs = 0
       THEN pc' = "crashed" /\ UNCHANGED chooseOrdersFunc
       ELSE /\ chooseOrdersFunc' = IF pickorders THEN "pick_order"
                                   ELSE IF choosecheapest THEN "cheapest_order_choose"
                                   ELSE "weighted_order_choose"
            /\ pc' = "fee"
    /\ UNCHANGED <<txfee, estimatorArgs, schedule, syncCount, walletView>>
    /\ UNCHANGED optionVars
    /\ UNCHANGED runVars

EstimateFee ==
    /\ pc = "fee"
    /\ IF txfee = UnsetFee
       THEN \E est \in EstimateValues :
               /\ txfee' = Max(txfee, est)
               /\ estimatorArgs' = Append(estimatorArgs,
                                          <<AssumedInputs, AssumedOutputs>>)
       ELSE UNCHANGED <<txfee, estimatorArgs>>
    /\ pc' = "assert"
    /\ UNCHANGED <<schedule, chooseOrdersFunc, syncCount, walletView>>
    /\ UNCHANGED optionVars
    /\ UNCHANGED runVars

AssertFee ==
    /\ pc = "assert"
    /\ pc' = IF txfee >= 0 THEN "sync" ELSE "crashed"
    /\ UNCHANGED <<txfee, estimatorArgs, schedule, chooseOrdersFunc, syncCount,
                   walletView>>
    /\ UNCHANGED optionVars
    /\ UNCHANGED runVars

sync_wallet ==
    /\ syncCount' = syncCount + 1
    /\ walletView' = txCompleted

SyncWallet ==
    /\ pc = "sync"
    /\ sync_wallet
    /\ pc' = "start"
    /\ UNCHANGED <<txfee, estimatorArgs, schedule, chooseOrdersFunc>>
    /\ UNCHANGED optionVars
    /\ UNCHANGED runVars

StartReactor ==
    /\ pc = "start"
    /\ reactor' = "running"
    /\ pc' = "reactor"
    /\ UNCHANGED <<txfee, estimatorArgs, schedule, chooseOrdersFunc, syncCount,
                   walletView, currentIndex, roundState, picked, visited, queue,
                   runSignalSent, handled, outcome, txCompleted>>
    /\ UNCHANGED optionVars

MainReturn ==
    /\ pc = "reactor"
    /\ reactor = "stopped"
    /\ pc' = "done"
    /\ UNCHANGED <<txfee, estimatorArgs, schedule, chooseOrdersFunc, syncCount,
                   walletView>>
    /\ UNCHANGED optionVars
    /\ UNCHANGED runVars

\* ------------------------------------------- Taker / protocol client adapter
\* The adapter turns to schedule entry i (0-based): a round for it is started,
\* or, past the last entry, the schedule is exhausted.
startEntry(i) ==
    IF i < Len(schedule)
    THEN /\ visited' = Append(visited, [index |-> i, syncs |-> syncCount',
                                        view |-> walletView', txs |-> txCompleted])
         /\ roundState' = "selecting"
         /\ picked' = FALSE
    ELSE /\ roundState' = "exhausted"
         /\ UNCHANGED <<visited, picked>>

\* clientStart after a completed transaction: advance to the next entry.
clientStart ==
    /\ currentIndex' = currentIndex + 1
    /\ startEntry(currentIndex + 1)

reactor_stop == reactor' = "stopped"

\* --------------------------------------------------------- taker_finished
\* outcome records the terminal state entered: Aborted on a round failure and
\* on a run-level signal with res false, Completed on one with res true.
\* Variant: the wallet is resynced only when a further entry follows.
taker_finished_syncifmore(res, fromtx) ==
    IF fromtx
    THEN IF res
         THEN /\ IF currentIndex + 1 < Len(schedule)
                 THEN sync_wallet
                 ELSE UNCHANGED <<syncCount, walletView>>
              /\ clientStart
              /\ UNCHANGED <<reactor, outcome>>
         ELSE /\ reactor_stop
              /\ outcome' = outcome \cup {"Aborted"}
              /\ UNCHANGED <<syncCount, walletView, currentIndex, roundState,
                             picked, visited>>
    ELSE /\ outcome' = outcome \cup {IF res THEN "Completed" ELSE "Aborted"}
         /\ reactor_stop
         /\ UNCHANGED <<syncCount, walletView, currentIndex, roundState, picked,
                        visited>>

\* Variant: the result of a round is ignored; a failed round is followed by
\* a sync and clientStart like a successful one.
taker_finished_retry(res, fromtx) ==
    IF fromtx
    THEN /\ sync_wallet
         /\ clientStart
         /\ UNCHANGED <<reactor, outcome>>
    ELSE /\ outcome' = outcome \cup {IF res THEN "Completed" ELSE "Aborted"}
         /\ reactor_stop
         /\ UNCHANGED <<syncCount, walletView, currentIndex, roundState, picked,
                        visited>>

\* Variant: clientStart without the wallet resync.
taker_finished_nosync(res, fromtx) ==
    IF fromtx
    THEN IF res
         THEN /\ UNCHANGED <<syncCount, walletView>>
              /\ clientStart
              /\ UNCHANGED <<reactor, outcome>>
         ELSE /\ reactor_stop
              /\ outcome' = outcome \cup {"Aborted"}
              /\ UNCHANGED <<syncCount, walletView, currentIndex, roundState,
                             picked, visited>>
    ELSE /\ outcome' = outcome \cup {IF res THEN "Completed" ELSE "Aborted"}
         /\ reactor_stop
         /\ UNCHANGED <<syncCount, walletView, currentIndex, roundState, picked,
                        visited>>

\* Variant: a failed round is started again instead of stopping the reactor.
taker_finished_restart(res, fromtx) ==
    IF fromtx
    THEN IF res
         THEN /\ sync_wallet
              /\ clientStart
              /\ UNCHANGED <<reactor, outcome>>
         ELSE /\ UNCHANGED <<syncCount, walletView, currentIndex>>
              /\ startEntry(currentIndex)
              /\ UNCHANGED <<reactor, outcome>>
    ELSE /\ outcome' = outcome \cup {IF res THEN "Completed" ELSE "Aborted"}
         /\ reactor_stop
         /\ UNCHANGED <<syncCount, walletView, currentIndex, roundState, picked,
                        visited>>

\* Variant: fromtx is ignored; any signal with res true counts as a round success.
taker_finished_anyres(res, fromtx) ==
    IF res
    THEN /\ sync_wallet
         /\ clientStart
         /\ UNCHANGED <<reactor, outcome>>
    ELSE /\ reactor_stop
         /\ outcome' = outcome \cup {"Aborted"}
         /\ UNCHANGED <<syncCount, walletView, currentIndex, roundState, picked,
                        visited>>

\* Variant: on a run-level signal the reactor is stopped only if res is true.
taker_finished_stopifres(res, fromtx) ==
    IF fromtx
    THEN IF res
         THEN /\ sync_wallet
              /\ clientStart
              /\ UNCHANGED <<reactor, outcome>>
         ELSE /\ reactor_stop
              /\ outcome' = outcome \cup {"Aborted"}
              /\ UNCHANGED <<syncCount, walletView, currentIndex, roundState,
                             picked, visited>>
    ELSE /\ outcome' = outcome \cup {IF res THEN "Completed" ELSE "Aborted"}
         /\ IF res THEN reactor_stop ELSE UNCHANGED reactor
         /\ UNCHANGED <<syncCount, walletView, currentIndex, roundState, picked,
                        visited>>

\* Variant: the two run-level reports are exchanged.
taker_finished_swapped(res, fromtx) ==
    IF fromtx
    THEN IF res
         THEN /\ sync_wallet
              /\ clientStart
              /\ UNCHANGED <<reactor, outcome>>
         ELSE /\ reactor_stop
              /\ outcome' = outcome \cup {"Aborted"}
              /\ UNCHANGED <<syncCount, walletView, currentIndex, roundState,
                             picked, visited>>
    ELSE /\ outcome' = outcome \cup {IF res THEN "Aborted" ELSE "Completed"}
         /\ reactor_stop
         /\ UNCHANGED <<syncCount, walletView, currentIndex, roundState, picked,
                        visited>>

\* Variant: a failed round does not stop the reactor.
taker_finished_nostop(res, fromtx) ==
    IF fromtx
    THEN IF res
         THEN /\ sync_wallet
              /\ clientStart
              /\ UNCHANGED <<reactor, outcome>>
         ELSE /\ outcome' = outcome \cup {"Aborted"}
              /\ UNCHANGED <<reactor, syncCount, walletView, currentIndex,
                             roundState, picked, visited>>
    ELSE /\ outcome' = outcome \cup {IF res THEN "Completed" ELSE "Aborted"}
         /\ reactor_stop
         /\ UNCHANGED <<syncCount, walletView, currentIndex, roundState, picked,
                        visited>>

\* taker_finished(res, fromtx), the callback handed to the Taker.
taker_finished(res, fromtx) ==
    IF fromtx
    THEN IF res
         THEN /\ sync_wallet
              /\ clientStart
              /\ UNCHANGED <<reactor, outcome>>
         ELSE \* a transaction failed; just stop
              /\ reactor_stop
              /\ outcome' = outcome \cup {"Aborted"}
              /\ UNCHANGED <<syncCount, walletView, currentIndex, roundState,
                             picked, visited>>
    ELSE /\ outcome' = outcome \cup {IF res THEN "Completed" ELSE "Aborted"}
         /\ reactor_stop
         /\ UNCHANGED <<syncCount, walletView, currentIndex, roundState, picked,
                        visited>>

mainVars == <<pc, txfee, estimatorArgs, schedule, chooseOrdersFunc>>

\* The reactor dispatches the oldest pending signal to taker_finished.
Deliver ==
    /\ reactor = "running"
    /\ queue # <<>>
    /\ queue' = Tail(queue)
    /\ handled' = Append(handled, Head(queue))
    /\ taker_finished(Head(queue).res, Head(queue).fromtx)
    /\ UNCHANGED <<runSignalSent, txCompleted>>
    /\ UNCHANGED mainVars
    /\ UNCHANGED optionVars

\* ------------------------------------------------------- adapter behaviour
adapterFrame ==
    /\ UNCHANGED <<syncCount, walletView, reactor, currentIndex, handled, outcome>>
    /\ UNCHANGED mainVars
    /\ UNCHANGED optionVars

\* The connection to the daemon is up: the first round is started.
ClientConnected ==
    /\ reactor = "running"
    /\ roundState = "idle"
    /\ adapterFrame
    /\ startEntry(currentIndex)
    /\ UNCHANGED <<queue, runSignalSent, txCompleted>>

\* The operator supplies the choice of offers the manual policy waits for.
ManualPick ==
    /\ roundState = "selecting"
    /\ chooseOrdersFunc = "pick_order"
    /\ ~picked
    /\ picked' = TRUE
    /\ UNCHANGED <<roundState, visited, queue, runSignalSent, txCompleted>>
    /\ adapterFrame

\* Order selection: enough offers, or a liquidity error that ends the run.
SelectOffers ==
    /\ roundState = "selecting"
    /\ chooseOrdersFunc # "pick_order" \/ picked
    /\ \E enough \in BOOLEAN :
          IF enough
          THEN roundState' = "active" /\ UNCHANGED <<queue, runSignalSent>>
          ELSE /\ roundState' = "unfilled"
               /\ queue' = IF runSignalSent THEN queue ELSE Append(queue, RunAborted)
               /\ runSignalSent' = TRUE
    /\ UNCHANGED <<picked, visited, txCompleted>>
    /\ adapterFrame

EmitRoundSucceeded ==
    /\ roundState = "active"
    /\ roundState' = "succeeded"
    /\ txCompleted' = txCompleted + 1
    /\ queue' = Append(queue, RoundSucceeded)
    /\ UNCHANGED <<picked, visited, runSignalSent>>
    /\ adapterFrame

EmitRoundFailed ==
    /\ roundState = "active"
    /\ roundState' = "failed"
    /\ queue' = Append(queue, RoundFailed)
    /\ UNCHANGED <<picked, visited, runSignalSent, txCompleted>>
    /\ adapterFrame

EmitRunCompleted ==
    /\ roundState = "exhausted"
    /\ ~runSignalSent
    /\ runSignalSent' = TRUE
    /\ queue' = Append(queue, RunCompleted)
    /\ UNCHANGED <<roundState, picked, visited, txCompleted>>
    /\ adapterFrame

\* An abort of the run while an entry is still unfinished.
EmitRunAborted ==
    /\ roundState \in {"active", "succeeded", "failed"}
    /\ txCompleted < Len(schedule)
    /\ ~runSignalSent
    /\ runSignalSent' = TRUE
    /\ queue' = Append(queue, RunAborted)
    /\ UNCHANGED <<roundState, picked, visited, txCompleted>>
    /\ adapterFrame

\* ---------------------------------------------------------- specifications
Next ==
    \/ CheckArgs
    \/ BuildSchedule
    \/ Setup
    \/ EstimateFee
    \/ AssertFee
    \/ SyncWallet
    \/ StartReactor
    \/ MainReturn
    \/ Deliver
    \/ ClientConnected
    \/ ManualPick
    \/ SelectOffers
    \/ EmitRoundSucceeded
    \/ EmitRoundFailed
    \/ EmitRunCompleted
    \/ EmitRunAborted

Spec == Init /\ [][Next]_vars

FairSpec ==
    /\ Init
    /\ [][Next]_vars
    /\ WF_vars(Deliver)
    /\ WF_vars(ClientConnected)
    /\ WF_vars(SelectOffers)
    /\ WF_vars(EmitRoundSucceeded \/ EmitRoundFailed)
    /\ WF_vars(EmitRunCompleted)

\* ------------------------------------------------------ derived quantities
NumHandled(sig) == Cardinality({i \in 1..Len(handled) : handled[i] = sig})

NumSuccessHandled == NumHandled(RoundSucceeded)

NumRoundSignalsHandled == NumHandled(RoundSucceeded) + NumHandled(RoundFailed)

Completed == "Completed" \in outcome

Aborted == "Aborted" \in outcome

Stopped == reactor = "stopped"

\* Rounds started whose terminal signal taker_finished has not yet seen.
Outstanding == Len(visited) - NumRoundSignalsHandled

\* taker_finished is being called with signal sig in this step.
Handling(sig) ==
    /\ reactor = "running"
    /\ queue # <<>>
    /\ Head(queue) = sig
    /\ handled' = Append(handled, sig)

\* ------------------------------------------------------------------ claims

\* The step in which taker_finished handles a round failure.
C1_FailureStep ==
    Handling(RoundFailed) =>
        /\ reactor' = "stopped"
        /\ "Aborted" \in outcome'
        /\ syncCount' = syncCount
        /\ visited' = visited
        /\ currentIndex' = currentIndex

\* The state of a run in which a round failure has been handled.
C1_AfterFailure ==
    NumHandled(RoundFailed) > 0 =>
        /\ Stopped
        /\ Aborted
        /\ handled[Len(handled)] = RoundFailed
        /\ visited[Len(visited)].index = currentIndex
        /\ syncCount = visited[Len(visited)].syncs

\* C1: a round failure reported while an entry is running takes the run
\* straight to Aborted with the event loop stopped; the handling step requests
\* no wallet sync, starts no round and leaves currentIndex alone, and from then
\* on the failed entry is the last round started and no sync follows.
C1_RoundFailureAborts == [][C1_FailureStep]_vars /\ []C1_AfterFailure

C1_Witness ==
    /\ NumHandled(RoundFailed) > 0
    /\ currentIndex = 1
    /\ Stopped

\* C2: the wallet is synced once before the first round, and every later round
\* is started only after a further sync that has caught up with the
\* transaction completed by the round before it: no round starts on a stale
\* wallet view.
C2_SyncBeforeEveryRound ==
    /\ reactor # "notstarted" => syncCount >= 1
    /\ \A k \in 1..Len(visited) :
          /\ visited[k].view = visited[k].txs
          /\ k = 1 => visited[k].syncs = 1
          /\ k > 1 => visited[k].syncs > visited[k - 1].syncs

C2_Witness ==
    /\ Len(visited) >= 2
    /\ visited[2].txs = 1
    /\ roundState = "active"

\* C3: at most one round is outstanding, and every round after the first is
\* started in reaction to a success signal of the round before it.
C3_OneRoundAtATime ==
    /\ Outstanding \in {0, 1}
    /\ Len(visited) <= 1 + NumSuccessHandled
    /\ Len(visited) > 0 => Len(visited) >= NumRoundSignalsHandled

C3_Witness ==
    /\ Len(visited) = 2
    /\ Outstanding = 1
    /\ queue = <<>>

\* C4: currentIndex starts at 0 and counts exactly the round successes
\* handled; the k-th round started is the round of the k-th schedule entry, so
\* no more rounds are started than the schedule has entries, and a completed
\* run has visited every entry in schedule order.
C4_ScheduleOrder ==
    /\ currentIndex = NumSuccessHandled
    /\ \A k \in 1..Len(visited) : visited[k].index = k - 1
    /\ Len(visited) <= Len(schedule)
    /\ Completed => Len(visited) = Len(schedule)

C4_Witness ==
    /\ Completed
    /\ Len(visited) >= 2
    /\ currentIndex = Len(schedule)

\* A step taken from a state in which the run has an outcome.
C5_TerminalStep ==
    outcome # {} =>
        /\ syncCount' = syncCount
        /\ visited' = visited
        /\ currentIndex' = currentIndex
        /\ outcome' = outcome
        /\ reactor' = "stopped"

\* C5: once the run has entered Completed or Aborted the event loop stays
\* stopped and no step changes the number of wallet syncs, the rounds started,
\* currentIndex or the outcome, whatever signals the adapter still emits.
C5_TerminalAbsorbing == [][C5_TerminalStep]_vars

C5_Witness ==
    /\ Stopped
    /\ outcome # {}
    /\ queue # <<>>
    /\ Head(queue) = RoundSucceeded
    /\ currentIndex + 1 < Len(schedule)

\* C6: the run is Completed only if every entry's round succeeded and
\* currentIndex equals the schedule length; a stopped run in which some entry
\* did not succeed is Aborted; no run is both.
C6_UnambiguousOutcome ==
    /\ Completed => /\ currentIndex = Len(schedule)
                    /\ NumSuccessHandled = Len(schedule)
    /\ Stopped /\ NumSuccessHandled < Len(schedule) => Aborted
    /\ Stopped => outcome # {}
    /\ ~(Completed /\ Aborted)

C6_Witness ==
    /\ Completed
    /\ pc = "done"

\* C7, as the specification states it: a completed schedule of n entries has
\* had the wallet synced exactly n times, no sync following the success of the
\* last entry.
C7_NoSyncAfterLast == Completed => syncCount = Len(schedule)

\* C7, as the code has it: the wallet is synced once at start and once after every
\* round success, the last included: a completed schedule of n entries has had
\* n + 1 syncs.
C7_SyncAfterEverySuccess ==
    /\ reactor # "notstarted" => syncCount = 1 + NumSuccessHandled
    /\ Completed => syncCount = Len(schedule) + 1

C7_Witness ==
    /\ Completed
    /\ Len(schedule) = 1
    /\ syncCount = 2

\* C8: the wallet sync and the first round are reached only with a non-empty
\* schedule all of whose entries are valid (address valid, counterparty count
\* positive, amount non-negative), on either construction path.
C8_OnlyValidSchedulesRun ==
    (syncCount > 0 \/ visited # <<>>) =>
        /\ Len(schedule) > 0
        /\ \A i \in 1..Len(schedule) : EntryValid(schedule[i])

\* C9: for every fee override the assertion txfee >= 0 holds when it is
\* reached; the estimator is called, with 2 inputs and 2 outputs, exactly when
\* the override is unset, and a supplied override is used unchanged.
C9_FeeNonNegative ==
    pc \in {"assert", "sync", "start", "reactor", "done"} =>
        /\ txfee >= 0
        /\ feeOverride = UnsetFee => estimatorArgs = <<<<2, 2>>>>
        /\ feeOverride # UnsetFee => estimatorArgs = <<>> /\ txfee = feeOverride

\* The event loop is stopped in exactly one of Completed and Aborted.
Terminal ==
    /\ Stopped
    /\ Cardinality(outcome) = 1

\* C10: with a non-manual selection policy, a run that has started eventually
\* has its event loop stopped in exactly one of Completed and Aborted, and
\* stays there.
C10_Terminates ==
    /\ (reactor = "running" /\ chooseOrdersFunc # "pick_order") ~> Terminal
    /\ [][Terminal => Terminal']_vars

C10_Witness ==
    /\ Terminal
    /\ chooseOrdersFunc = "weighted_order_choose"
    /\ handled # <<>>
    /\ handled[Len(handled)] = RunAborted

====
